---- MODULE Spec2Model ----
(***************************************************************************)
(* Model of the thin-film BVP scripts of Intro-Soft-Matter-2025:           *)
(*   adam-kicman-v1.py, adam-kicman-v2.py, George-Zhang-v1.1.py.           *)
(* Each script is a sequence of module-level statements: build the mesh    *)
(* and the guess, call scipy.integrate.solve_bvp, test sol.success or      *)
(* sol.status, sample sol.sol on x_plot, plot, show.  adam-kicman-v2.py    *)
(* then repeats the same statements, without the show, in a loop over      *)
(* N_array.  What plt.show() does depends on matplotlib's backend, which   *)
(* is the environment's: both kinds are modelled.                          *)
(*                                                                         *)
(* Numbers.  Mesh coordinates are exact rationals: a mesh is a record      *)
(* [pts, den] standing for the points pts[i]/den.  Guess arrays are        *)
(* records [num, den] in the same way.  Values of the iterate at the two   *)
(* end points, tolerances and boundary residuals are integers in units of  *)
(* 1e-4; the regularisation eps and the denominators h^2+h+eps are         *)
(* integers in units of 1e-10.  Mesh sizes (4000 points, max_nodes=20000,  *)
(* 1000 plot points) are scaled down to the bounds below.                  *)
(*                                                                         *)
(* solve_bvp is the library routine the scripts call; its loop is modelled *)
(* one iteration per step: a Newton solve whose result (end-point values,  *)
(* singular or not, the residual class of each mesh interval) is an input  *)
(* drawn from small sets, followed by the routine's own decisions (insert  *)
(* nodes, stop on the node budget, stop on convergence, stop on the        *)
(* iteration cap).                                                         *)
(***************************************************************************)
EXTENDS Integers, Sequences, FiniteSets, TLC

\* ------------------------------------------------------------------ bounds
\* stand-in for the initial mesh size of a stand-alone solve (4000, 500, 200)
NMain == 3
\* stand-ins for np.arange(100, 10100+1000, 1000): the first mesh size, the
\* last one and the step.  As in the script, the stand-alone mesh size lies
\* between the first and the last and is not an entry of the sweep, and
\* every mesh size is below max_nodes
NFirst == 2
NLast == 4
NStep == 2
\* stand-in for max_nodes (20000, 10000, library default 1000)
MaxNodes == 5
\* stand-in for the 1000 points of x_plot
NPlot == 2
\* stand-in for the library's cap on iterations that add no node (10)
MaxIteration == 2
\* range of h (units of 1e-4) and of eps (units of 1e-10) for the
\* right-hand-side study
HMax == 3
EpsMax == 4
\* largest mesh size and largest domain length for the study of the guess
GNMax == 7
GLMax == 20

\* ------------------------------------------------------------ arithmetic
Abs(a) == IF a < 0 THEN -a ELSE a

Max2(a, b) == IF a < b THEN b ELSE a

\* Euclid's algorithm.  The helpers below are written as functions applied
\* to their arguments, so that each argument is evaluated once.
Gcd(a, b) ==
    LET G[p \in Nat \X Nat] == IF p[2] = 0 THEN p[1] ELSE G[<<p[2], p[1] % p[2]>>]
    IN  G[<<Abs(a), Abs(b)>>]

\* the gcd of g and the entries of s
GcdSeq(s, g) ==
    LET F[v \in {s}] ==
          LET H[k \in 0..Len(v)] == IF k = 0 THEN g ELSE Gcd(H[k - 1], v[k])
          IN  H[Len(v)]
    IN  F[s]

\* a rational array [num, den] in lowest terms (den > 0)
Normalize(a) ==
    LET F[v \in {a}] ==
          LET G[g \in {GcdSeq(v.num, v.den)}] ==
                [num |-> [i \in 1..Len(v.num) |-> v.num[i] \div g],
                 den |-> v.den \div g]
          IN  G[GcdSeq(v.num, v.den)]
    IN  F[a]

\* a rational num/den as an integer in units of 1e-4 (floor)
Fix(num, den) == (num * 10000) \div den

\* ------------------------------------------------------------- np helpers
\* np.linspace(a, b, n): the n points a + (i-1)(b-a)/(n-1), kept as
\* numerators over the common denominator n-1
linspace(a, b, n) ==
    [pts |-> [i \in 1..n |-> a * (n - 1) + (i - 1) * (b - a)], den |-> n - 1]

\* np.arange(start, stop, step) for step > 0
RECURSIVE arange(_, _, _)
arange(start, stop, step) ==
    IF start >= stop THEN <<>> ELSE <<start>> \o arange(start + step, stop, step)

\* differentiation by one-sided differences everywhere: forward, and
\* backward at the last point
gradientOneSided(f, x) ==
    LET F[v \in {f}] ==
          LET n == Len(v.num)
              s == x.pts[2] - x.pts[1]
              df(i) == IF i = n THEN 2 * (v.num[n] - v.num[n - 1])
                       ELSE 2 * (v.num[i + 1] - v.num[i])
          IN  Normalize([num |-> [i \in 1..n |-> x.den * df(i)],
                         den |-> v.den * 2 * s])
    IN  F[f]

\* least common multiple of two positive integers
Lcm(a, b) == (a \div Gcd(a, b)) * b

\* the lcm of the entries of s
LcmSeq(s) ==
    LET F[v \in {s}] ==
          LET H[k \in 0..Len(v)] == IF k = 0 THEN 1 ELSE Lcm(H[k - 1], v[k])
          IN  H[Len(v)]
    IN  F[s]

\* np.gradient(f, x) for the coordinates x.  Inside, the second-order
\* difference for unequal spacing,
\*   (hs^2 f[i+1] + (hd^2 - hs^2) f[i] - hd^2 f[i-1]) / (hs hd (hd + hs))
\* with hs = x[i] - x[i-1] and hd = x[i+1] - x[i], which is the central
\* difference where hs = hd; first-order one-sided differences at the two
\* ends.  Element i is the fraction top/bot; the result is brought to one
\* denominator.
gradient(f, x) ==
    LET F[a \in {<<f, x>>}] ==
          LET v == a[1]
              xm == a[2]
              n == Len(v.num)
              Elem(i) ==
                IF i = 1
                THEN [top |-> xm.den * (v.num[2] - v.num[1]),
                      bot |-> v.den * (xm.pts[2] - xm.pts[1])]
                ELSE IF i = n
                THEN [top |-> xm.den * (v.num[n] - v.num[n - 1]),
                      bot |-> v.den * (xm.pts[n] - xm.pts[n - 1])]
                ELSE LET g == Gcd(xm.pts[i] - xm.pts[i - 1], xm.pts[i + 1] - xm.pts[i])
                         hs == (xm.pts[i] - xm.pts[i - 1]) \div g
                         hd == (xm.pts[i + 1] - xm.pts[i]) \div g
                     IN  [top |-> xm.den * (hs * hs * v.num[i + 1]
                                            + (hd * hd - hs * hs) * v.num[i]
                                            - hd * hd * v.num[i - 1]),
                          bot |-> v.den * g * hs * hd * (hd + hs)]
              G[e \in {[i \in 1..n |-> Elem(i)]}] ==
                LET C[c \in {LcmSeq([i \in 1..n |-> e[i].bot])}] ==
                      Normalize([num |-> [i \in 1..n |-> e[i].top * (c \div e[i].bot)],
                                 den |-> c])
                IN  C[LcmSeq([i \in 1..n |-> e[i].bot])]
          IN  G[[i \in 1..n |-> Elem(i)]]
    IN  F[<<f, x>>]

StrictlyIncreasing(s) == \A i \in 1..(Len(s) - 1) : s[i] < s[i + 1]

\* --------------------------------------------------------------- scripts
Scripts == {"adam-kicman-v1", "adam-kicman-v2", "George-Zhang-v1.1"}

\* The module-level parameters of each script.  eps in units of 1e-10
\* (adam-kicman-v1 has no eps in its denominator: 0), tol in units of 1e-4
\* (1e-4, or the library default 1e-3), x_max / L as written.
Config(s) ==
    CASE s = "adam-kicman-v1" ->
           [eps |-> 0, x_max |-> 50, N |-> NMain, guess |-> "linear",
            tol |-> 10, max_nodes |-> MaxNodes, sweep |-> <<>>, panels |-> 2]
      [] s = "adam-kicman-v2" ->
           [eps |-> 1, x_max |-> 20, N |-> NMain, guess |-> "cubic",
            tol |-> 1, max_nodes |-> MaxNodes,
            sweep |-> arange(NFirst, NLast + NStep, NStep), panels |-> 3]
      [] s = "George-Zhang-v1.1" ->
           [eps |-> 10000, x_max |-> 50, N |-> NMain, guess |-> "linear",
            tol |-> 10, max_nodes |-> MaxNodes, sweep |-> <<>>, panels |-> 2]

\* ------------------------------------------------------------ ode_system
\* ode_system without the regularisation (the adam-kicman-v1 form)
DenomNoEps(h, e) == h * h * 100 + h * 1000000

\* the denominator h^2 + h + eps, h in units of 1e-4, eps and the result in
\* units of 1e-10
Denom(h, e) == h * h * 100 + h * 1000000 + e

\* rhs = -0.01 / (h**2 + h + eps) as the exact fraction num/den in units of
\* 1; den = 0 is the division by zero numpy answers with -inf
ode_system(h, e) == [num |-> -1, den |-> Denom(h, e), h |-> h, eps |-> e]

\* ------------------------------------------------------------------- bc
\* the far-end condition taken at the near end
bcNearEndOnly(ya, yb) == <<ya[1] - 0, ya[2] - 10000, ya[1] - 0>>

\* ya = (h, h') at the first mesh point, yb = h'' at the last, units 1e-4
bc(ya, yb) == <<ya[1] - 0, ya[2] - 10000, yb - 0>>


\* ----------------------------------------------------------------- state
VARIABLES
    script,     \* which script runs
    pc,         \* the statement the script is at
    idx,        \* 0 in the stand-alone part, i while the loop handles N_array[i]
    eps, x_max, N,          \* module-level parameters
    x, h_guess, y_init,     \* module-level mesh and guess
    m_x, iteration, ya, yb, \* solve_bvp's locals: mesh, counter, end values
    rhs0,       \* the last evaluation of ode_system at the first mesh point
    sol,        \* module-level result of solve_bvp
    newton,     \* solve_bvp as a function: the calls that have returned
    x_plot, y_plot,         \* evaluation grid and the sampled arrays
    h, hp, hpp,             \* module-level rows of y_plot, as plotted
    backend,    \* matplotlib's backend: "agg" draws to memory, "gui" opens windows
    figs,       \* the figures pyplot holds, in the order they were opened
    files,      \* the files written so far
    stdout,     \* the lines printed so far
    \* the right-hand-side study
    r_pc, r_h, r_eps1, r_eps2, r_rhs1, r_rhs2

scriptVars == <<script, pc, idx, eps, x_max, N, x, h_guess, y_init, m_x, iteration,
                ya, yb, rhs0, sol, newton, x_plot, y_plot, h, hp, hpp, backend, figs,
                files, stdout>>
rhsVars == <<r_pc, r_h, r_eps1, r_eps2, r_rhs1, r_rhs2>>
vars == <<scriptVars, rhsVars>>

NoMesh == [pts |-> <<>>, den |-> 1]
NoArr == [num |-> <<>>, den |-> 1]
NoGuess == <<NoArr, NoArr, NoArr>>
NoSol == [status |-> -1]
NoRhs == [den |-> 1, eps |-> 1, h |-> 1, num |-> 0]
NoPlot == [h |-> <<>>, hp |-> <<>>, hpp |-> <<>>]

RhsIdle == r_pc = "idle" /\ r_h = 0 /\ r_eps1 = 0 /\ r_eps2 = 0
           /\ r_rhs1 = NoRhs /\ r_rhs2 = NoRhs

\* ------------------------------------------------------------ the guess
\* x = np.linspace(0, x_max, N)
Mesh(L, n) == linspace(0, L, n)

\* h_guess = x - (x/x_max)**3
CubicGuess(xm, L) ==
    Normalize([num |-> [i \in 1..Len(xm.pts) |->
                          xm.pts[i] * xm.den * xm.den * L * L * L
                          - xm.pts[i] * xm.pts[i] * xm.pts[i]],
               den |-> xm.den * xm.den * xm.den * L * L * L])

\* y_init: rows h, h', h''
InitialGuess(kind, xm, L) ==
    LET n == Len(xm.pts)
    IN  IF kind = "cubic"
        THEN LET g == CubicGuess(xm, L)
                 d1 == gradient(g, xm)
             IN  <<g, d1, gradient(d1, xm)>>
        ELSE <<[num |-> xm.pts, den |-> xm.den],
               [num |-> [i \in 1..n |-> 1], den |-> 1],
               [num |-> [i \in 1..n |-> 0], den |-> 1]>>

\* a mesh and a guess built once and kept for every later solve
GuessReusesMesh ==
    /\ pc = "guess"
    /\ x' = IF x = NoMesh THEN Mesh(x_max, N) ELSE x
    /\ h_guess' = IF h_guess = NoArr /\ Config(script).guess = "cubic"
                  THEN CubicGuess(Mesh(x_max, N), x_max)
                  ELSE h_guess
    /\ y_init' = IF y_init = NoGuess
                 THEN InitialGuess(Config(script).guess, Mesh(x_max, N), x_max)
                 ELSE y_init
    /\ pc' = "solve"
    /\ UNCHANGED <<newton, h, hp, hpp, script, backend, files, idx, eps, x_max, N, m_x, iteration, ya, yb, rhs0, sol,
                   x_plot, y_plot, figs, stdout, rhsVars>>

\* lines "x = np.linspace(...)" to "y_init[2] = ..."
Guess ==
    /\ pc = "guess"
    /\ x' = Mesh(x_max, N)
    /\ h_guess' = IF Config(script).guess = "cubic"
                  THEN CubicGuess(Mesh(x_max, N), x_max)
                  ELSE h_guess
    /\ y_init' = InitialGuess(Config(script).guess, Mesh(x_max, N), x_max)
    /\ pc' = "solve"
    /\ UNCHANGED <<newton, h, hp, hpp, script, backend, files, idx, eps, x_max, N, m_x, iteration, ya, yb, rhs0, sol,
                   x_plot, y_plot, figs, stdout, rhsVars>>

\* ------------------------------------------------------------- solve_bvp
\* what solve_bvp refuses with ValueError before its first iteration
ValidInput(xm, y) ==
    /\ Len(xm.pts) >= 1
    /\ StrictlyIncreasing(xm.pts)
    /\ \A r \in 1..3 : Len(y[r].num) = Len(xm.pts)

\* sol = solve_bvp(ode_system, bc, x, y_init, ...): entry
SolveCall ==
    /\ pc = "solve"
    /\ IF ValidInput(x, y_init)
       THEN LET n == Len(x.pts)
            IN  /\ m_x' = x
                /\ ya' = <<Fix(y_init[1].num[1], y_init[1].den),
                           Fix(y_init[2].num[1], y_init[2].den)>>
                /\ yb' = Fix(y_init[3].num[n], y_init[3].den)
                /\ iteration' = 0
                /\ pc' = "loop"
       ELSE /\ pc' = "raised"
            /\ UNCHANGED <<m_x, ya, yb, iteration>>
    /\ UNCHANGED <<newton, h_guess, h, hp, hpp, script, backend, files, idx, eps, x_max, N, x, y_init, rhs0, sol,
                   x_plot, y_plot, figs, stdout, rhsVars>>

\* the end values a Newton solve may return, for tolerance tol: exact, at the
\* tolerance, and just beyond it, in each of the three boundary components
EndCases(tol) ==
    { [ya |-> <<0, 10000>>, yb |-> 0],
      [ya |-> <<tol, 10000>>, yb |-> 0],
      [ya |-> <<-(tol + 1), 10000>>, yb |-> 0],
      [ya |-> <<0, 10000 + tol + 1>>, yb |-> 0],
      [ya |-> <<0, 10000>>, yb |-> -(tol + 1)] }

\* residual class of an interval: 0 rms <= tol, 1 tol < rms < 100 tol,
\* 2 rms >= 100 tol
RECURSIVE NodesAdded(_, _)
NodesAdded(cls, i) == IF i = 0 THEN 0 ELSE cls[i] + NodesAdded(cls, i - 1)

\* modify_mesh: one node in the middle of a class-1 interval, two nodes at
\* the thirds of a class-2 interval; every coordinate is rescaled by 6
RECURSIVE InsertFrom(_, _, _)
InsertFrom(pts, cls, i) ==
    IF i = Len(pts) THEN <<6 * pts[i]>>
    ELSE (CASE cls[i] = 0 -> <<6 * pts[i]>>
            [] cls[i] = 1 -> <<6 * pts[i], 3 * (pts[i] + pts[i + 1])>>
            [] cls[i] = 2 -> <<6 * pts[i], 2 * (2 * pts[i] + pts[i + 1]),
                               2 * (pts[i] + 2 * pts[i + 1])>>)
         \o InsertFrom(pts, cls, i + 1)

\* refinement by laying a new uniform mesh of the larger size over the interval
modify_meshUniform(xm, cls) ==
    LET n == Len(xm.pts)
        M == n + NodesAdded(cls, n - 1)
    IN  [pts |-> [i \in 1..M |-> (i - 1) * xm.pts[n]], den |-> (M - 1) * xm.den]

modify_mesh(xm, cls) == [pts |-> InsertFrom(xm.pts, cls, 1), den |-> 6 * xm.den]

\* the budget tested on the mesh as it is, not as it would become
ExceedsBudgetBefore(m, nodes_added, max_nodes) == m > max_nodes

\* "if m + nodes_added > max_nodes"
ExceedsBudget(m, nodes_added, max_nodes) == m + nodes_added > max_nodes

\* "elif max_bc_res <= bc_tol", bc_tol = tol
BcSatisfied(bc_res, tol) == \A j \in 1..3 : Abs(bc_res[j]) <= tol

\* "elif iteration >= max_iteration"
IterationCap(it) == it >= MaxIteration

\* the largest residual class over the intervals (max of rms_residuals)
RECURSIVE MaxClass(_, _)
MaxClass(cls, i) == IF i = 0 THEN 0 ELSE Max2(cls[i], MaxClass(cls, i - 1))

\* the BVPResult, as far as the scripts and the properties read it: status,
\* success, the size of the final mesh x, the end values y[:, 0] and y[:, -1],
\* the largest class of rms_residuals; N0 is the size of the mesh the call
\* was given
Result(status, xm, a, b, rms) ==
    [status |-> status, success |-> (status = 0), node_count |-> Len(xm.pts),
     ya |-> a, yb |-> b, rms_max |-> rms, N0 |-> Len(x.pts)]

Return(status, a, b, rms) ==
    /\ sol' = Result(status, m_x, a, b, rms)
    /\ pc' = "check"
    /\ m_x' = NoMesh /\ iteration' = 0 /\ ya' = <<0, 0>> /\ yb' = 0

\* a pass that forgets to count itself
ContinueNoCount(xm, a, b, it) ==
    /\ m_x' = xm /\ ya' = a /\ yb' = b /\ iteration' = iteration
    /\ UNCHANGED <<sol, pc>>

Continue(xm, a, b, it) ==
    /\ m_x' = xm /\ ya' = a /\ yb' = b /\ iteration' = it
    /\ UNCHANGED <<sol, pc>>

\* one pass of solve_bvp's loop: ode_system is evaluated on the current
\* iterate (rhs0 keeps its value at the first mesh point), then the Newton
\* solve gives the next iterate
SolvePass ==
    /\ pc = "loop"
    /\ rhs0' = ode_system(ya[1], eps)
    /\ LET m == Len(m_x.pts)
           cfg == Config(script)
           \* the residual classes of the intervals, by whether the nodes
           \* they call for exceed the budget
           over == { c \in [1..(m - 1) -> 0..2] :
                       ExceedsBudget(m, NodesAdded(c, m - 1), cfg.max_nodes) }
           within == [1..(m - 1) -> 0..2] \ over
       IN  \* "if singular: status = 2", whatever the residuals are
           \/ \E e \in EndCases(cfg.tol) : \E rms \in 0..2 : Return(2, e.ya, e.yb, rms)
           \* "if m + nodes_added > max_nodes: status = 1": the result keeps
           \* only the largest class of the residuals that led there
           \/ \E rms \in { MaxClass(c, m - 1) : c \in over } :
                \E e \in EndCases(cfg.tol) : Return(1, e.ya, e.yb, rms)
           \/ \E cls \in within : \E e \in EndCases(cfg.tol) :
                LET it == iteration + 1
                    bc_res == bc(e.ya, e.yb)
                    nodes_added == NodesAdded(cls, m - 1)
                    rms == MaxClass(cls, m - 1)
                IN  IF nodes_added > 0
                         THEN Continue(modify_mesh(m_x, cls), e.ya, e.yb, it)
                    ELSE IF BcSatisfied(bc_res, cfg.tol)
                         THEN Return(0, e.ya, e.yb, rms)
                    ELSE IF IterationCap(it)
                         THEN Return(3, e.ya, e.yb, rms)
                    ELSE Continue(m_x, e.ya, e.yb, it)
    /\ UNCHANGED <<h_guess, h, hp, hpp, script, backend, files, idx, eps, x_max, N, x, y_init,
                   x_plot, y_plot, figs, stdout, rhsVars>>

\* the loop as the scripts run it
SolveIter == SolvePass /\ UNCHANGED newton


\* ------------------------------------------------------ after the solve
\* a failed solve raising instead of being reported
CheckRaises ==
    /\ pc = "check"
    /\ stdout' = stdout
    /\ rhs0' = NoRhs
    /\ pc' = IF sol.success THEN "eval" ELSE "raised"
    /\ UNCHANGED <<newton, h_guess, h, hp, hpp, script, backend, files, idx, eps, x_max, N, x, y_init, m_x, iteration, ya, yb, sol,
                   x_plot, y_plot, figs, rhsVars>>

\* a failed solve ending the script
CheckStops ==
    /\ pc = "check"
    /\ stdout' = IF sol.success THEN stdout ELSE Append(stdout, "WARNING")
    /\ rhs0' = NoRhs
    /\ pc' = IF sol.success THEN "eval" ELSE "done"
    /\ UNCHANGED <<newton, h_guess, h, hp, hpp, script, backend, files, idx, eps, x_max, N, x, y_init, m_x, iteration, ya, yb, sol,
                   x_plot, y_plot, figs, rhsVars>>

\* "if not sol.success: print(WARNING)" (adam-kicman), or
\* "if sol.status != 0: print(WARNING); print(sol.message)" (George-Zhang);
\* either way the script goes on to the evaluation
Check ==
    /\ pc = "check"
    /\ stdout' = IF sol.success THEN stdout
                 ELSE IF script = "George-Zhang-v1.1"
                      THEN stdout \o <<"WARNING", <<"message", sol.status>>>>
                      ELSE Append(stdout, "WARNING")
    /\ rhs0' = NoRhs
    /\ pc' = "eval"
    /\ UNCHANGED <<newton, h_guess, h, hp, hpp, script, backend, files, idx, eps, x_max, N, x, y_init, m_x, iteration, ya, yb, sol,
                   x_plot, y_plot, figs, rhsVars>>

\* sol.sol(x_plot): rows h, h', h'' with one sample per point of x_plot; a
\* sample is named by the solution it comes from and the point it is taken at
Sample(s, c, at) == [c |-> c, N |-> s.N0, ok |-> s.success, at |-> at]

Evaluate(s, grid) ==
    [h   |-> [i \in 1..Len(grid.pts) |-> Sample(s, "h", grid.pts[i])],
     hp  |-> [i \in 1..Len(grid.pts) |-> Sample(s, "hp", grid.pts[i])],
     hpp |-> [i \in 1..Len(grid.pts) |-> Sample(s, "hpp", grid.pts[i])]]

\* "x_plot = np.linspace(0, x_max, 1000)" (stand-alone part only),
\* "y_plot = sol.sol(x_plot)" and "h = y_plot[0]; hp = y_plot[1];
\* hpp = y_plot[2]"
Eval ==
    /\ pc = "eval"
    /\ x_plot' = IF idx = 0 THEN linspace(0, x_max, NPlot) ELSE x_plot
    /\ y_plot' = Evaluate(sol, x_plot')
    /\ h' = y_plot'.h /\ hp' = y_plot'.hp /\ hpp' = y_plot'.hpp
    /\ pc' = "plot"
    /\ UNCHANGED <<newton, h_guess, script, backend, files, idx, eps, x_max, N, x, y_init, m_x, iteration, ya, yb, rhs0,
                   sol, figs, stdout, rhsVars>>

\* pyplot's state: the figures it holds in the order they were opened, the
\* last one being the current figure.  A figure has axes 1, 2, 3 (the rows of the
\* subplot grid) and axes 0 (the full-size axes plt.plot creates when the
\* figure has none); each holds the curves drawn on it, in order; cur is the
\* current axes, -1 when the figure has none yet.
EmptyFigure == [panels |-> [k \in 0..3 |-> <<>>], cur |-> -1]

\* plt.subplot(rows, 1, k) on the current figure
Subplot(fs, k) == [fs EXCEPT ![Len(fs)].cur = k]

\* plt.plot(x_plot, curve) on the current axes of the current figure
PlotCurve(fs, curve) ==
    LET f == fs[Len(fs)]
        k == IF f.cur = -1 THEN 0 ELSE f.cur
    IN  [fs EXCEPT ![Len(fs)] =
            [panels |-> [f.panels EXCEPT ![k] = Append(f.panels[k], curve)],
             cur |-> k]]

\* the subplot/plot calls of one figure: three rows h, h', h'' or two rows
\* h', h''; the labels and grid that follow each plot find its axes current
\* and leave the figures as they are
DrawPanels(fs, yp, panels) ==
    IF panels = 3
    THEN PlotCurve(Subplot(PlotCurve(Subplot(PlotCurve(Subplot(fs, 1), yp.h), 2),
                                     yp.hp), 3), yp.hpp)
    ELSE PlotCurve(Subplot(PlotCurve(Subplot(fs, 1), yp.hp), 2), yp.hpp)

\* drawing on the current figure without opening a new one
DrawOnCurrent(fs, yp, panels) ==
    IF fs = <<>> THEN DrawPanels(<<EmptyFigure>>, yp, panels)
    ELSE DrawPanels([fs EXCEPT ![Len(fs)] = EmptyFigure], yp, panels)

\* plt.figure(...) opens a new figure; the subplot/plot calls draw on it
NewFigure(fs, yp, panels) == DrawPanels(Append(fs, EmptyFigure), yp, panels)

\* "plt.figure(...)" (plt.subplots in George-Zhang-v1.1) to the last
\* subplot/plot/label/grid call of the figure.  The stand-alone part goes on
\* to tight_layout and show; the loop body ends here
Plot ==
    /\ pc = "plot"
    /\ figs' = NewFigure(figs, [h |-> h, hp |-> hp, hpp |-> hpp],
                         Config(script).panels)
    /\ pc' = IF idx = 0 THEN "show" ELSE "for"
    /\ UNCHANGED <<newton, h_guess, h, hp, hpp, script, backend, files, idx, eps, x_max, N, x, y_init, m_x, iteration, ya, yb, rhs0,
                   sol, x_plot, y_plot, stdout, rhsVars>>

\* the file plt.savefig writes, in the script that calls it
SavedFile(s) == IF s = "George-Zhang-v1.1" THEN {"hprime_h2prime_linear.png"} ELSE {}

\* the statement after plt.show(): the loop, or the end of the script
AfterShow == IF Config(script).sweep = <<>> THEN "done" ELSE "for"

\* "plt.tight_layout()", "plt.savefig(...)" (George-Zhang-v1.1) and
\* "plt.show()".  tight_layout moves the axes within the figure and leaves
\* their curves as they are; savefig writes the figure to a file.  Under a
\* backend without windows show returns at once; under a windowing backend
\* it opens the window of every figure pyplot holds and waits in the event
\* loop until they are closed
Show ==
    /\ pc = "show"
    /\ files' = files \cup SavedFile(script)
    /\ pc' = IF backend = "gui" THEN "shown" ELSE AfterShow
    /\ UNCHANGED <<newton, h_guess, h, hp, hpp, script, backend, idx, eps, x_max, N, x,
                   y_init, m_x, iteration, ya, yb, rhs0, sol, x_plot, y_plot,
                   figs, stdout, rhsVars>>

\* the window is closed by whoever runs the script: a closed figure is
\* removed from pyplot, and plt.show() returns
CloseWindow ==
    /\ pc = "shown"
    /\ figs' = <<>>
    /\ pc' = AfterShow
    /\ UNCHANGED <<newton, h_guess, h, hp, hpp, script, backend, files, idx, eps, x_max,
                   N, x, y_init, m_x, iteration, ya, yb, rhs0, sol, x_plot, y_plot,
                   stdout, rhsVars>>

\* "for N in N_array:"
ForNext ==
    /\ pc = "for"
    /\ LET N_array == Config(script).sweep
       IN  IF idx < Len(N_array)
           THEN /\ idx' = idx + 1
                /\ N' = N_array[idx + 1]
                /\ pc' = "guess"
           ELSE /\ pc' = "done"
                /\ UNCHANGED <<idx, N>>
    /\ UNCHANGED <<newton, h_guess, h, hp, hpp, script, backend, files, eps, x_max, x, y_init, m_x, iteration, ya, yb, rhs0,
                   sol, x_plot, y_plot, figs, stdout, rhsVars>>

\* ------------------------------------------------------------ the script
Init ==
    /\ script \in Scripts
    /\ backend \in {"agg", "gui"}
    /\ pc = "guess" /\ idx = 0
    /\ eps = Config(script).eps
    /\ x_max = Config(script).x_max
    /\ N = Config(script).N
    /\ x = NoMesh /\ h_guess = NoArr /\ y_init = NoGuess
    /\ m_x = NoMesh /\ iteration = 0 /\ ya = <<0, 0>> /\ yb = 0
    /\ rhs0 = NoRhs
    /\ sol = NoSol /\ newton = {}
    /\ x_plot = NoMesh /\ y_plot = NoPlot
    /\ h = <<>> /\ hp = <<>> /\ hpp = <<>>
    /\ figs = <<>> /\ files = {} /\ stdout = <<>>
    /\ RhsIdle

Next ==
    \/ Guess
    \/ SolveCall
    \/ SolveIter
    \/ Check
    \/ Eval
    \/ Plot
    \/ Show
    \/ CloseWindow
    \/ ForNext

Spec == Init /\ [][Next]_vars

\* ------------------------------------------- solve_bvp as a function
\* solve_bvp keeps nothing between calls and draws no random number: what it
\* returns is computed from its arguments and from what ode_system and bc
\* read.  newton is the graph of that function as far as the run has
\* computed it: each call that has returned, with what it was given and the
\* Solution it returned.

\* what a call is given: the mesh and the guess, eps as ode_system reads it,
\* tol and max_nodes
CallInput ==
    [x |-> x, y_init |-> y_init, eps |-> eps,
     tol |-> Config(script).tol, max_nodes |-> Config(script).max_nodes]

\* a returned result as a Solution: the converged flag and the number of
\* nodes; its samples on a grid are Evaluate's
Solution(s) == [converged |-> s.success, node_count |-> s.node_count]

\* one pass of the loop; the call that returns is kept with its Solution
DetSolveIter ==
    /\ SolvePass
    /\ newton' = IF pc' = "check"
                 THEN newton \cup {[input |-> CallInput, sol |-> Solution(sol')]}
                 ELSE newton

DetNext ==
    \/ Guess
    \/ SolveCall
    \/ DetSolveIter
    \/ Check
    \/ Eval
    \/ Plot
    \/ Show
    \/ CloseWindow
    \/ ForNext

DetSpec == Init /\ [][DetNext]_vars


\* --------------------------------------------- the right-hand side alone
\* ode_system's third row for one h and two regularisations
RhsEval ==
    /\ r_pc = "input"
    /\ r_rhs1' = ode_system(r_h, r_eps1)
    /\ r_rhs2' = ode_system(r_h, r_eps2)
    /\ r_pc' = "evaluated"
    /\ UNCHANGED <<scriptVars, r_h, r_eps1, r_eps2>>

\* |a| < |b| for two right-hand sides a = num/den; a zero denominator is the
\* infinite value numpy returns
MagLess(a, b) ==
    IF a.den = 0 THEN FALSE
    ELSE IF b.den = 0 THEN TRUE
    ELSE Abs(a.num) * Abs(b.den) < Abs(b.num) * Abs(a.den)

RhsInit ==
    /\ script = "adam-kicman-v2"
    /\ pc = "done" /\ idx = 0
    /\ eps = Config(script).eps
    /\ x_max = Config(script).x_max
    /\ N = Config(script).N
    /\ x = NoMesh /\ h_guess = NoArr /\ y_init = NoGuess
    /\ m_x = NoMesh /\ iteration = 0 /\ ya = <<0, 0>> /\ yb = 0
    /\ rhs0 = NoRhs
    /\ sol = NoSol /\ newton = {}
    /\ x_plot = NoMesh /\ y_plot = NoPlot
    /\ h = <<>> /\ hp = <<>> /\ hpp = <<>>
    /\ backend = "agg"
    /\ figs = <<>> /\ files = {} /\ stdout = <<>>
    /\ r_pc = "input"
    /\ r_h \in (-HMax)..HMax
    /\ r_eps1 \in 1..EpsMax
    /\ r_eps2 \in 1..EpsMax
    /\ r_rhs1 = NoRhs /\ r_rhs2 = NoRhs

RhsNext == RhsEval

RhsSpec == RhsInit /\ [][RhsNext]_vars

\* ----------------------------------------------------- the guess alone
\* "x = np.linspace(0, x_max, N)" for one mesh size and one domain length
GuessMesh ==
    /\ pc = "g_mesh"
    /\ x' = Mesh(x_max, N)
    /\ pc' = "g_rows"
    /\ UNCHANGED <<newton, h_guess, h, hp, hpp, script, backend, files, idx, eps, x_max, N, y_init, m_x, iteration, ya, yb, rhs0,
                   sol, x_plot, y_plot, figs, stdout, rhsVars>>

\* "h_guess = x - (x/x_max)**3" to "y_init[2] = np.gradient(y_init[1], x)"
GuessRows ==
    /\ pc = "g_rows"
    /\ h_guess' = CubicGuess(x, x_max)
    /\ y_init' = InitialGuess("cubic", x, x_max)
    /\ pc' = "g_done"
    /\ UNCHANGED <<newton, h, hp, hpp, script, backend, files, idx, eps, x_max, N, x, m_x, iteration, ya, yb, rhs0,
                   sol, x_plot, y_plot, figs, stdout, rhsVars>>

GuessInit ==
    /\ script = "adam-kicman-v2"
    /\ pc = "g_mesh" /\ idx = 0
    /\ eps = Config(script).eps
    /\ x_max \in 1..GLMax
    /\ N \in 2..GNMax
    /\ x = NoMesh /\ h_guess = NoArr /\ y_init = NoGuess
    /\ m_x = NoMesh /\ iteration = 0 /\ ya = <<0, 0>> /\ yb = 0
    /\ rhs0 = NoRhs
    /\ sol = NoSol /\ newton = {}
    /\ x_plot = NoMesh /\ y_plot = NoPlot
    /\ h = <<>> /\ hp = <<>> /\ hpp = <<>>
    /\ backend = "agg"
    /\ figs = <<>> /\ files = {} /\ stdout = <<>>
    /\ RhsIdle

GuessNext ==
    \/ GuessMesh
    \/ GuessRows

GuessSpec == GuessInit /\ [][GuessNext]_vars

\* ================================================================ claims
tol == Config(script).tol
max_nodes == Config(script).max_nodes
N_array == Config(script).sweep
Returned == sol # NoSol
Sampled == pc \in {"plot", "show", "shown", "for", "done"}

\* the mesh size a figure's curves were computed for, and whether that
\* solve converged
FigN(f) == f.panels[1][1][1].N
FigOk(f) == f.panels[1][1][1].ok

\* the number of mesh sizes of N_array whose loop body has run to its end
Made == IF idx = 0 THEN 0 ELSE IF pc \in {"for", "done"} THEN idx ELSE idx - 1

\* the records of the sweep: the figures its loop bodies have opened, which
\* are the last ones pyplot holds
Records ==
    LET m == IF Made <= Len(figs) THEN Made ELSE Len(figs)
    IN  [k \in 1..m |-> figs[Len(figs) - m + k]]

\* the figures pyplot still holds from before the sweep
Kept == Len(figs) - Len(Records)

Failed(fs) == Cardinality({k \in 1..Len(fs) : ~FigOk(fs[k])})

\* C1: a solve that ends without meeting the tolerance does not raise; it
\* returns a result tagged success = FALSE, and sampling it on x_plot gives
\* the three arrays h, h', h'' with one value per point of x_plot, as for a
\* converged solve.
C1_NonConvergenceReturns ==
    /\ pc # "raised"
    /\ Returned /\ sol.status # 0 => sol.success = FALSE
    /\ Sampled =>
         /\ Len(y_plot.h) = Len(x_plot.pts)
         /\ Len(y_plot.hp) = Len(x_plot.pts)
         /\ Len(y_plot.hpp) = Len(x_plot.pts)
         /\ \A i \in 1..Len(x_plot.pts) :
              /\ y_plot.h[i] = [c |-> "h", N |-> sol.N0, ok |-> sol.success,
                                at |-> x_plot.pts[i]]
              /\ y_plot.hp[i].N = sol.N0 /\ y_plot.hp[i].ok = sol.success
              /\ y_plot.hpp[i].N = sol.N0 /\ y_plot.hpp[i].ok = sol.success

C1_Witness ==
    /\ pc = "plot" /\ Returned /\ sol.status = 1 /\ ~sol.success
    /\ Len(y_plot.h) = NPlot /\ Len(y_plot.hpp) = NPlot
    /\ y_plot.h[1].ok = FALSE

\* C2: whenever a solve returns success = TRUE, each component of the
\* boundary residual (h(0) - 0, h'(0) - 1, h''(L) - 0) at the end points of
\* the returned solution is within tol; a solution with a residual beyond
\* tol is never tagged success = TRUE.
C2_ConvergedMeetsBoundary ==
    Returned /\ sol.success =>
        /\ Abs(sol.ya[1] - 0) <= tol
        /\ Abs(sol.ya[2] - 10000) <= tol
        /\ Abs(sol.yb - 0) <= tol

C2_Witness ==
    Returned /\ sol.success /\ sol.ya[1] = tol /\ sol.node_count > sol.N0

\* C3: in a solve whose max_nodes is at least the size of the mesh it was
\* given, the number of nodes never decreases from one pass of the loop to
\* the next and never exceeds max_nodes, in the loop and in the result.
C3_MeshGrowthBounded ==
    /\ [](Len(x.pts) <= max_nodes =>
            /\ pc = "loop" => Len(m_x.pts) <= max_nodes
            /\ Returned => sol.N0 <= sol.node_count /\ sol.node_count <= max_nodes)
    /\ [][/\ pc = "loop" /\ pc' = "loop" => Len(m_x'.pts) >= Len(m_x.pts)
          /\ pc = "loop" /\ pc' = "check" => sol'.node_count = Len(m_x.pts)]_vars

C3_Witness ==
    /\ pc = "check" /\ sol.N0 < max_nodes /\ sol.node_count = max_nodes
    /\ sol.status = 1

\* what bounds the loop of solve_bvp: the nodes still within the budget plus
\* the passes still under the iteration cap
LoopRank ==
    (max_nodes - Len(m_x.pts))
    + (IF iteration < MaxIteration THEN MaxIteration - iteration ELSE 0)

\* C4 as claimed: a solve ends only as Converged or ExhaustedNodeBudget.
C4_TwoOutcomesOnly ==
    Returned => sol.status \in {0, 1}

\* C4, amended: every solve goes from the call into the loop and from the
\* loop to its return, and returns in exactly one of four ways: converged
\* (no interval flagged, boundary residuals within tol), node budget
\* exceeded (an insertion was due), singular Jacobian, or iteration cap
\* reached with a boundary residual beyond tol.  The loop cannot run for
\* ever: a pass is always possible, and every pass that does not return
\* lowers LoopRank, which is never negative.
C4_TerminatesInFourOutcomes ==
    /\ [](Returned =>
            /\ sol.status \in 0..3
            /\ sol.status = 0 => sol.rms_max = 0 /\ Abs(sol.ya[1]) <= tol
                                 /\ Abs(sol.ya[2] - 10000) <= tol /\ Abs(sol.yb) <= tol
            /\ sol.status = 1 => sol.rms_max > 0
            /\ sol.status = 3 => sol.rms_max = 0)
    /\ [][/\ pc = "solve" => pc' = "loop"
          /\ pc = "loop" => pc' \in {"loop", "check"}]_vars
    /\ [][pc = "loop" /\ pc' = "loop" => LoopRank' < LoopRank]_vars
    /\ [](pc = "loop" => LoopRank >= 0 /\ ENABLED SolveIter)

C4_Witness ==
    pc = "check" /\ sol.status = 3 /\ sol.node_count > sol.N0

\* C5: the records of the sweep, its figures, come in the order of N_array
\* and are never changed, replaced or dropped afterwards: record k shows the
\* solve for N_array[k], also after the sweep has gone on, and there is one
\* per mesh size at the end.  No step but the closing of the stand-alone
\* figure's window removes or changes a figure pyplot holds; where that
\* window was never opened, figure 1 is the stand-alone solve's and figure
\* k + 1 is record k.
C5_RecordsInOrderAppendOnly ==
    /\ [][/\ Len(Records') >= Len(Records)
          /\ \A i \in 1..Len(Records) : Records'[i] = Records[i]]_vars
    /\ [][pc # "shown" =>
            /\ Len(figs') >= Len(figs)
            /\ \A i \in 1..Len(figs) : figs'[i] = figs[i]]_vars
    /\ [](/\ Len(Records) = Made
          /\ \A k \in 1..Len(Records) : FigN(Records[k]) = N_array[k])
    /\ [](pc = "done" =>
            /\ Len(Records) = Len(N_array)
            /\ Kept = (IF backend = "agg" THEN 1 ELSE 0))

C5_Witness ==
    /\ script = "adam-kicman-v2" /\ pc = "done"
    /\ Len(Records) = 2 /\ FigN(Records[1]) # FigN(Records[2])
    /\ Kept = 1 /\ Records[2] = figs[3]

\* what bounds the script: the mesh sizes still to come, the statements
\* still to run for the current one, the passes left to its solve
Stage ==
    CASE pc = "guess" -> 9 [] pc = "solve" -> 8 [] pc = "loop" -> 7
      [] pc = "check" -> 6 [] pc = "eval" -> 5 [] pc = "plot" -> 4
      [] pc = "show" -> 3 [] pc = "shown" -> 2
      [] pc = "for" -> 1 [] OTHER -> 0

ScriptRank ==
    LET r == max_nodes + MaxIteration + 1
    IN  (Len(N_array) - idx) * 10 * r + Stage * r
        + (IF pc = "loop" THEN LoopRank ELSE 0)

\* C6: the sweep goes on after a solve that did not converge: the script
\* always reaches its end (a step can be taken in every state but the last,
\* the closing of the window being the step while plt.show() waits, and
\* every step lowers ScriptRank, which is never negative), with one record
\* per mesh size of N_array, each for its own mesh size, and one printed
\* warning per solve that failed: a warning is printed by the test of a
\* failed solve and by nothing else, and at the end the warnings are as
\* many as the figures of failed solves, the stand-alone solve's being
\* counted where its figure was closed.
C6_SweepCompletes ==
    /\ [][ScriptRank' < ScriptRank]_vars
    /\ [](ScriptRank >= 0 /\ (pc # "done" => ENABLED Next))
    /\ [][script # "George-Zhang-v1.1" =>
            Len(stdout') = Len(stdout)
                           + (IF pc = "check" /\ ~sol.success THEN 1 ELSE 0)]_vars
    /\ [](pc = "done" /\ script # "George-Zhang-v1.1" =>
            /\ Len(Records) = Len(N_array)
            /\ \A k \in 1..Len(Records) : FigN(Records[k]) = N_array[k]
            /\ Kept = 1 => Len(stdout) = Failed(figs)
            /\ Kept = 0 => Len(stdout) - Failed(Records) \in {0, 1})

C6_Witness ==
    /\ script = "adam-kicman-v2" /\ pc = "done" /\ backend = "gui"
    /\ Len(figs) = Len(N_array)
    /\ ~FigOk(Records[1]) /\ FigOk(Records[Len(Records)])
    /\ Len(stdout) = 1

\* C7 as claimed: with a malformed configuration (eps <= 0, L <= 0,
\* tol <= 0, a mesh that does not increase or a guess of another shape) no
\* pass of the solver's loop runs and no solution is produced.
Malformed ==
    \/ eps <= 0 \/ x_max <= 0 \/ tol <= 0
    \/ x # NoMesh /\ y_init # NoGuess /\ ~ValidInput(x, y_init)

C7_MalformedRejected ==
    Malformed => pc \notin {"loop", "check", "eval", "plot"} /\ sol = NoSol

\* C8 as claimed: every evaluation of the right-hand side uses eps > 0, and
\* its denominator is not zero where h = 0.
C8_RhsRegularised ==
    rhs0 # NoRhs => rhs0.eps > 0 /\ (rhs0.h = 0 => rhs0.den # 0)

\* C9 as claimed: for eps1 < eps2 the right-hand side is strictly smaller
\* in magnitude under eps2 for every h near zero, negative h included.
C9_DampingAllH ==
    r_pc = "evaluated" /\ r_eps1 < r_eps2 => MagLess(r_rhs2, r_rhs1)

\* C9, amended: for 0 < eps1 < eps2 the right-hand side is strictly smaller
\* in magnitude under eps2 for every h >= 0.
C9_DampingNonNegativeH ==
    r_pc = "evaluated" /\ r_eps1 < r_eps2 /\ r_h >= 0 => MagLess(r_rhs2, r_rhs1)

C9_Witness ==
    r_pc = "evaluated" /\ r_eps1 < r_eps2 /\ r_h = 0 /\ MagLess(r_rhs2, r_rhs1)

CurrentN == IF idx = 0 THEN Config(script).N ELSE N_array[idx]

\* the arrays a solve of mesh size n gets when that configuration is solved
\* on its own
AloneMesh(n) == Mesh(Config(script).x_max, n)
AloneGuess(n) == InitialGuess(Config(script).guess, AloneMesh(n), Config(script).x_max)

\* what a solve of mesh size n is given when that configuration is solved on
\* its own, and what solve_bvp has returned for it
AloneInput(n) ==
    [x |-> AloneMesh(n), y_init |-> AloneGuess(n), eps |-> Config(script).eps,
     tol |-> Config(script).tol, max_nodes |-> Config(script).max_nodes]
AloneResult(n) == { c.sol : c \in { d \in newton : d.input = AloneInput(n) } }

InMesh(a, i, b) ==
    \E j \in 1..Len(b.pts) : a.pts[i] * b.den = b.pts[j] * a.den

\* a strictly increasing mesh of at least two points from 0 to L
MeshOk(xm, L) ==
    /\ Len(xm.pts) >= 2
    /\ xm.den > 0
    /\ StrictlyIncreasing(xm.pts)
    /\ xm.pts[1] = 0
    /\ xm.pts[Len(xm.pts)] = L * xm.den
    /\ \A i \in 1..Len(xm.pts) : 0 <= xm.pts[i] /\ xm.pts[i] <= L * xm.den

\* C12: the mesh a solve is called with and the mesh of every pass of its
\* loop is strictly increasing, has at least two points, starts at 0, ends
\* at L and lies in [0, L]; a pass that refines only inserts points: every
\* point of the mesh before it is a point of the mesh after it, and the
\* mesh the loop starts from is the mesh the solve was called with.
C12_MeshOrderedInsertOnly ==
    /\ [](pc \in {"solve", "loop"} => MeshOk(x, x_max))
    /\ [](pc = "loop" => MeshOk(m_x, x_max))
    /\ [][pc = "solve" /\ pc' = "loop" => m_x' = x]_vars
    /\ [][pc = "loop" /\ pc' = "loop" =>
            /\ \A i \in 1..Len(m_x.pts) : InMesh(m_x, i, m_x')
            /\ Len(m_x'.pts) >= Len(m_x.pts)]_vars

\* a mesh of two points refined to four, two nodes having been inserted at
\* the thirds of its one interval
C12_Witness ==
    /\ pc = "loop" /\ Len(x.pts) = 2 /\ Len(m_x.pts) = 4
    /\ 3 * m_x.pts[2] = m_x.pts[4]
    /\ 3 * m_x.pts[3] = 2 * m_x.pts[4]

\* the magnitudes of the guessed curvature y_init[2], over its common
\* denominator
Curv(i) == Abs(y_init[3].num[i])

\* C13 as claimed: on the half of the mesh nearest x = L the magnitude of
\* the guessed curvature does not grow from one mesh point to the next.
C13_CurvatureDoesNotGrow ==
    pc = "g_done" =>
        \A i \in 1..(N - 1) :
            2 * x.pts[i] >= x_max * x.den => Curv(i + 1) <= Curv(i)

\* C13, amended: for the guess h = x - (x/L)^3 differentiated twice by
\* np.gradient on N uniform points, h(0) = 0 exactly and
\* h'(0) = 1 - 1/((N-1)^2 L); the curvature is nowhere positive and its
\* magnitude does not shrink from the first point up to point N-2, so it
\* grows toward L; only over the last two points, where the one-sided
\* differences act, does it not grow (N >= 5); and the guessed h''(L) is
\* -3(N-2)/((N-1) L^2), which is not zero for N >= 3.
C13_CurvatureGrowsTowardL ==
    pc = "g_done" =>
        LET g == y_init[1]
            d1 == y_init[2]
            d2 == y_init[3]
        IN  /\ Len(d2.num) = N
            /\ g.num[1] = 0
            /\ d1.num[1] * (N - 1) * (N - 1) * x_max
                 = d1.den * ((N - 1) * (N - 1) * x_max - 1)
            /\ \A i \in 1..N : d2.num[i] <= 0
            /\ \A i \in 1..(N - 3) : Curv(i) <= Curv(i + 1)
            /\ N >= 5 => Curv(N) <= Curv(N - 1) /\ Curv(N - 1) <= Curv(N - 2)
            /\ d2.num[N] * (N - 1) * x_max * x_max = -3 * (N - 2) * d2.den
            /\ N >= 3 => d2.num[N] # 0

\* the guess of adam-kicman-v2 (L = 20) on seven points, its curvature
\* growing between two points of the half nearest L
C13_Witness ==
    /\ pc = "g_done" /\ N = 7 /\ x_max = 20
    /\ 2 * x.pts[4] >= x_max * x.den
    /\ Curv(4) < Curv(5)
    /\ Curv(7) < Curv(6) /\ Curv(6) < Curv(5)

====
